---- MODULE Spec2Model ----
(***************************************************************************)
(* The marketplace client: the listing index (Home), the creation form     *)
(* (ListingCreate) and the detail view (ListingDetails), each a React      *)
(* component whose state is a handful of useState cells, whose event       *)
(* handlers run to completion, and whose requests to the hosted backend    *)
(* resolve later, in any order.                                            *)
(***************************************************************************)
EXTENDS Integers, Sequences, FiniteSets, TLC

VARIABLES
    page,         \* the page component that is mounted ("left" once it is unmounted)
    location,     \* the router's path
    \* ---- Home (src/src/pages/Home.tsx) ----
    listings,     \* useState<CarListing[]>([]): ids, in the order returned
    loading,      \* useState(true)
    brands,       \* useState<CarBrand[]>([])
    models,       \* useState<CarModel[]>([])
    filters,      \* useState<Filters>({})
    showFilters,  \* useState(false)
    homeEffects,  \* effects scheduled by the last render and not yet run
    brandsReq,    \* fetchBrands requests in flight (a count)
    modelReqs,    \* fetchModels requests in flight: the brand ids, oldest first
    listReqs,     \* fetchListings requests in flight: the queries, oldest first
    \* ---- ListingCreate (src/unnamed/part_002) ----
    cLoading,       \* useState(false)
    cError,         \* useState<string | null>(null)
    cBrands,        \* useState<CarBrand[]>([])
    cModels,        \* useState<CarModel[]>([])
    selectedBrand,  \* useState<string>('')
    modelSelect,    \* the value of the uncontrolled <select name="model">
    yearInput,      \* the text of the uncontrolled <input name="year">
    cEffects,       \* effects scheduled by the last render and not yet run
    cBrandsReq,     \* fetchBrands requests in flight (a count)
    cModelReqs,     \* fetchModels requests in flight: the brand ids, oldest first
    submitPc,       \* where handleSubmit is: "idle", "getUser" or "insert"
    user,           \* handleSubmit's user: "unset" until getUser answers, then
                    \* "null" or the identity's id
    formData,       \* handleSubmit's formData, once the form has been read
    insertReq,      \* the row of the insert request in flight
    insertResult,   \* what the last insert request came back with
    \* ---- ListingDetails (src/unnamed/part_001) ----
    id,             \* useParams().id
    listing,        \* useState<CarListing | null>(null)
    dLoading,       \* useState(true)
    dError,         \* useState<string | null>(null)
    dEffects,       \* effects scheduled by the last render and not yet run
    detailReq,      \* the fetchListing request in flight: the listing id asked for
    detailResponse, \* what the last fetchListing request came back with
    \* ---- the backend's tables under row level security (src/unnamed/part_000) ----
    listingRows,    \* car_listings: the rows, as far as the policies read them
    profileRows,    \* profiles: the rows, as far as the policies read them
    lastOp,         \* the last statement a client sent, and what became of it
    \* ---- Profile (src/src/pages/Home.tsx, from line 359) ----
    profile,        \* useState<Profile | null>(null)
    pLoading,       \* useState(true)
    pError,         \* useState<string | null>(null)
    pEffects,       \* effects scheduled by the last render and not yet run
    pPc,            \* where fetchProfile or handleSignOut is
    pUser,          \* fetchProfile's user: "unset" until getUser answers, then
                    \* "null" or the identity's id
    profileReq,     \* the profile read in flight: the id asked for
    profileReads,   \* how many profile reads have been sent
    \* ---- observers: they record, and no handler reads them ----
    overtaken,      \* how many of the oldest listing requests in flight were issued
                    \* before a request that has been answered with rows
    lastRead,       \* the last listing response that brought rows: the rows of
                    \* its request, and whether that request had been overtaken
    \* ---- handleSubmit, call by call (src/unnamed/part_002) ----
    calls,          \* the calls of handleSubmit that have not returned, oldest
                    \* first: where each is, and the row of its insert
    created         \* how many rows the inserts of the form have created

homeVars == <<listings, loading, brands, models, filters, showFilters,
              homeEffects, brandsReq, modelReqs, listReqs>>
createVars == <<cLoading, cError, cBrands, cModels, selectedBrand, modelSelect,
                yearInput, cEffects, cBrandsReq, cModelReqs, submitPc, user, formData,
                insertReq, insertResult>>
detailVars == <<id, listing, dLoading, dError, dEffects, detailReq, detailResponse>>
backendVars == <<listingRows, profileRows, lastOp>>
profileVars == <<profile, pLoading, pError, pEffects, pPc, pUser, profileReq,
                 profileReads>>
observerVars == <<overtaken, lastRead, calls, created>>
vars == <<page, location, homeVars, createVars, detailVars, backendVars, profileVars,
          observerVars>>

\* what the handlers of one page leave alone
notHomeState == <<page, location, createVars, detailVars, backendVars, profileVars>>
notHome == <<notHomeState, observerVars>>
notCreate == <<homeVars, detailVars, backendVars, profileVars, observerVars>>
notDetail == <<page, location, homeVars, createVars, backendVars, profileVars,
               observerVars>>
notBackend == <<page, location, homeVars, createVars, detailVars, profileVars,
                observerVars>>
notProfile == <<homeVars, createVars, detailVars, backendVars, observerVars>>

----------------------------------------------------------------------------
(* Bounds *)

\* model and listing requests a page may have in flight at once
MaxInflight == 2
\* the numeric filter inputs take the values 0..MaxNum
MaxNum == 1
\* the images field holds at most MaxLen characters
MaxLen == 5

----------------------------------------------------------------------------
(* Optional values: JavaScript's undefined / null is None, a value v is Some(v) *)

None == <<>>
Some(v) == <<v>>

\* if (x) on a string | undefined
TruthyStr(x) == x # None /\ x[1] # ""
\* if (x) on a number | undefined: 0 is falsy
TruthyNum(x) == x # None /\ x[1] # 0

----------------------------------------------------------------------------
(* The backend's tables (part_000): two brands, their models, four listings *)

car_brands == <<"b1", "b2">>

car_models == << [id |-> "m1", brand_id |-> "b1"],
                 [id |-> "m2", brand_id |-> "b1"],
                 [id |-> "m3", brand_id |-> "b2"] >>

BrandIds == {car_brands[i] : i \in DOMAIN car_brands}
ModelIds == {car_models[i].id : i \in DOMAIN car_models}

BrandOf(m) == (CHOOSE r \in {car_models[i] : i \in DOMAIN car_models} : r.id = m).brand_id

car_listings ==
    { [id |-> "l1", brand_id |-> "b1", model_id |-> "m1", price |-> 0, year |-> 2,
       mileage |-> 1, transmission |-> "manual", condition |-> "used", created_at |-> 1],
      [id |-> "l2", brand_id |-> "b1", model_id |-> "m2", price |-> 1, year |-> 1,
       mileage |-> 0, transmission |-> "automatic", condition |-> "used", created_at |-> 2],
      [id |-> "l3", brand_id |-> "b2", model_id |-> "m3", price |-> 2, year |-> 0,
       mileage |-> 2, transmission |-> "manual", condition |-> "new", created_at |-> 3],
      [id |-> "l4", brand_id |-> "b2", model_id |-> "m3", price |-> 1, year |-> 1,
       mileage |-> 1, transmission |-> "automatic", condition |-> "used", created_at |-> 4] }

\* .from('car_models').select('*').eq('brand_id', brandId).order('name')
SelectModels(brandId) == SelectSeq(car_models, LAMBDA r : r.brand_id = brandId)

\* one predicate of a query: .eq / .gte / .lte on a column
Holds(row, p) ==
    CASE p.op = "eq"  -> row[p.col] = p.val
      [] p.op = "gte" -> row[p.col] >= p.val
      [] p.op = "lte" -> row[p.col] <= p.val

RECURSIVE NewestFirst(_)
\* .order('created_at', { ascending: false }) over a set of rows
NewestFirst(rows) ==
    IF rows = {} THEN <<>>
    ELSE LET r == CHOOSE x \in rows : \A y \in rows : y.created_at <= x.created_at
         IN <<r.id>> \o NewestFirst(rows \ {r})

\* the rows a query returns: every predicate holds, newest first
RunQuery(q) == NewestFirst({r \in car_listings : \A p \in q : Holds(r, p)})

----------------------------------------------------------------------------
(* Home: the filter form *)

FieldNames == {"brand_id", "model_id", "minPrice", "maxPrice", "minYear", "maxYear",
               "minMileage", "maxMileage", "transmission", "condition"}
NumFields  == {"minPrice", "maxPrice", "minYear", "maxYear", "minMileage", "maxMileage"}

\* useState<Filters>({})
EmptyFilters == [k \in FieldNames |-> None]

\* Number(e.target.value) on the text of a number input
Number(s) == CHOOSE n \in 0..MaxNum : ToString(n) = s

\* onChange of a select: e.target.value || undefined
SelectValue(s) == IF s # "" THEN Some(s) ELSE None

\* onChange of a number input: e.target.value ? Number(e.target.value) : undefined
NumberValue(s) == IF s # "" THEN Some(Number(s)) ELSE None

\* the texts a number input can hold
NumTexts == {""} \cup {ToString(n) : n \in 0..MaxNum}

Pred(c, o, v) == [col |-> c, op |-> o, val |-> v]

\* fetchListings, the query it builds from the filters of its closure
BuildQuery(f) ==
    (IF TruthyStr(f.brand_id) THEN {Pred("brand_id", "eq", f.brand_id[1])} ELSE {})
    \cup (IF TruthyStr(f.model_id) THEN {Pred("model_id", "eq", f.model_id[1])} ELSE {})
    \cup (IF TruthyNum(f.minPrice) THEN {Pred("price", "gte", f.minPrice[1])} ELSE {})
    \cup (IF TruthyNum(f.maxPrice) THEN {Pred("price", "lte", f.maxPrice[1])} ELSE {})
    \cup (IF TruthyNum(f.minYear) THEN {Pred("year", "gte", f.minYear[1])} ELSE {})
    \cup (IF TruthyNum(f.maxYear) THEN {Pred("year", "lte", f.maxYear[1])} ELSE {})
    \cup (IF TruthyNum(f.minMileage) THEN {Pred("mileage", "gte", f.minMileage[1])} ELSE {})
    \cup (IF TruthyNum(f.maxMileage) THEN {Pred("mileage", "lte", f.maxMileage[1])} ELSE {})
    \cup (IF TruthyStr(f.transmission)
          THEN {Pred("transmission", "eq", f.transmission[1])} ELSE {})
    \cup (IF TruthyStr(f.condition) THEN {Pred("condition", "eq", f.condition[1])} ELSE {})

----------------------------------------------------------------------------
(* Requests in flight: a response may arrive for any of them, in any order *)

Remove(seq, i) == SubSeq(seq, 1, i - 1) \o SubSeq(seq, i + 1, Len(seq))

\* what a read request can come back with: rows, an error object with data
\* null, or a rejected promise
Outcomes == {"ok", "error", "reject"}

----------------------------------------------------------------------------
(* Home: effects, handlers and responses *)

HomeIdle == page = "Home" /\ homeEffects = {}

\* the bound on requests in flight leaves room for one more
HomeRoom == Len(modelReqs) + Len(listReqs) < MaxInflight

\* fetchListings up to its await: the query is built from the filters of the
\* render whose handler or effect calls it
FetchListingsCall(f) == Append(listReqs, BuildQuery(f))

\* useEffect(() => { fetchBrands(); fetchListings(); }, [])
HomeMountEffect ==
    /\ page = "Home"
    /\ "mount" \in homeEffects
    /\ brandsReq' = brandsReq + 1
    /\ listReqs' = FetchListingsCall(filters)
    /\ homeEffects' = homeEffects \ {"mount"}
    /\ UNCHANGED <<notHome, listings, loading, brands, models, filters,
                   showFilters, modelReqs>>

\* the brand_id effect without setModels([]) in its else branch
BrandIdEffectKeepsModels ==
    /\ page = "Home"
    /\ homeEffects = {"brand_id"}
    /\ homeEffects' = {}
    /\ IF TruthyStr(filters.brand_id)
       THEN /\ modelReqs' = Append(modelReqs, filters.brand_id[1])
            /\ UNCHANGED <<models, filters>>
       ELSE /\ filters' = [filters EXCEPT !.model_id = None]
            /\ UNCHANGED <<models, modelReqs>>
    /\ UNCHANGED <<notHome, listings, loading, brands, showFilters,
                   brandsReq, listReqs>>

\* the brand_id effect without setFilters(prev => ({ ...prev, model_id: undefined }))
\* in its else branch
BrandIdEffectStepKeepsModelId ==
    /\ homeEffects = {"brand_id"}
    /\ homeEffects' = {}
    /\ IF TruthyStr(filters.brand_id)
       THEN /\ modelReqs' = Append(modelReqs, filters.brand_id[1])
            /\ UNCHANGED <<models, filters>>
       ELSE /\ models' = <<>>
            /\ UNCHANGED <<filters, modelReqs>>
    /\ UNCHANGED <<listings, loading, brands, showFilters, brandsReq, listReqs>>

\* useEffect(() => { if (filters.brand_id) fetchModels(..) else {..} }, [filters.brand_id]):
\* what the effect does to the state of Home
BrandIdEffectStep ==
    /\ homeEffects = {"brand_id"}
    /\ homeEffects' = {}
    /\ IF TruthyStr(filters.brand_id)
       THEN /\ modelReqs' = Append(modelReqs, filters.brand_id[1])
            /\ UNCHANGED <<models, filters>>
       ELSE /\ models' = <<>>
            /\ filters' = [filters EXCEPT !.model_id = None]
            /\ UNCHANGED modelReqs
    /\ UNCHANGED <<listings, loading, brands, showFilters, brandsReq, listReqs>>

\* the effect, run by Home mounted as the application's page
BrandIdEffect ==
    /\ page = "Home"
    /\ BrandIdEffectStep
    /\ UNCHANGED notHome

\* handleFilterChange: setFilters(prev => ({ ...prev, [name]: value }))
handleFilterChange(name, value) == [filters EXCEPT ![name] = value]

\* the option a select shows: its value when an option carries it, else the first
Shown(value, options) == IF value # None /\ value[1] \in options THEN value[1] ELSE ""

ModelOptions == {models[i].id : i \in DOMAIN models}
BrandOptions == {brands[i] : i \in DOMAIN brands}

\* handleFilterChange('brand_id', e.target.value || undefined), from the brand select
ChangeBrandStep(v) ==
    /\ homeEffects = {} /\ showFilters
    /\ v \in BrandOptions \cup {""}
    /\ v # Shown(filters.brand_id, BrandOptions)
    /\ v # "" => HomeRoom
    /\ filters' = handleFilterChange("brand_id", SelectValue(v))
    /\ homeEffects' = IF filters'.brand_id # filters.brand_id THEN {"brand_id"} ELSE {}
    /\ UNCHANGED <<listings, loading, brands, models, showFilters,
                   brandsReq, modelReqs, listReqs>>

ChangeBrand(v) ==
    /\ page = "Home"
    /\ ChangeBrandStep(v)
    /\ UNCHANGED notHome

\* handleFilterChange('model_id', e.target.value || undefined), from the model
\* select, which is disabled while no brand is chosen
ChangeModelStep(v) ==
    /\ homeEffects = {} /\ showFilters
    /\ TruthyStr(filters.brand_id)
    /\ v \in ModelOptions \cup {""}
    /\ v # Shown(filters.model_id, ModelOptions)
    /\ filters' = handleFilterChange("model_id", SelectValue(v))
    /\ UNCHANGED <<listings, loading, brands, models, showFilters,
                   homeEffects, brandsReq, modelReqs, listReqs>>

ChangeModel(v) ==
    /\ page = "Home"
    /\ ChangeModelStep(v)
    /\ UNCHANGED notHome

\* onClick={() => setShowFilters(!showFilters)}
ToggleFilters ==
    /\ HomeIdle
    /\ showFilters' = ~showFilters
    /\ UNCHANGED <<notHome, listings, loading, brands, models, filters,
                   homeEffects, brandsReq, modelReqs, listReqs>>

\* applyFilters
ApplyFilters ==
    /\ HomeIdle /\ showFilters
    /\ HomeRoom
    /\ loading' = TRUE
    /\ listReqs' = FetchListingsCall(filters)
    /\ showFilters' = FALSE
    /\ UNCHANGED <<notHome, listings, brands, models, filters, homeEffects,
                   brandsReq, modelReqs>>

\* resetFilters: setFilters({}) takes effect with the next render, fetchListings()
\* runs in this one
ResetFilters ==
    /\ HomeIdle /\ showFilters
    /\ HomeRoom
    /\ filters' = EmptyFilters
    /\ loading' = TRUE
    /\ listReqs' = FetchListingsCall(filters)
    /\ showFilters' = FALSE
    /\ homeEffects' = IF filters.brand_id # None THEN {"brand_id"} ELSE {}
    /\ UNCHANGED <<notHome, listings, brands, models, brandsReq, modelReqs>>

\* fetchBrands after its await
BrandsResponse(o) ==
    /\ HomeIdle
    /\ brandsReq > 0
    /\ brandsReq' = brandsReq - 1
    /\ brands' = CASE o = "ok" -> car_brands
                   [] o = "error" -> <<>>
                   [] o = "reject" -> brands
    /\ UNCHANGED <<notHome, listings, loading, models, filters, showFilters,
                   homeEffects, modelReqs, listReqs>>

\* Home's fetchModels after its await: const { data } = ...; setModels(data || [])
HomeModelsAfterAwait(brandId, o) ==
    CASE o = "ok" -> SelectModels(brandId)
      [] o = "error" -> <<>>
      [] o = "reject" -> models

ModelsResponseStep(i, o) ==
    /\ homeEffects = {}
    /\ i \in DOMAIN modelReqs
    /\ modelReqs' = Remove(modelReqs, i)
    /\ models' = HomeModelsAfterAwait(modelReqs[i], o)
    /\ UNCHANGED <<listings, loading, brands, filters, showFilters,
                   homeEffects, brandsReq, listReqs>>

ModelsResponse(i, o) ==
    /\ page = "Home"
    /\ ModelsResponseStep(i, o)
    /\ UNCHANGED notHome

\* fetchListings without "if (error) throw error", as Home's fetchBrands and
\* fetchModels are written: a failed read shows no listing
ListingsResponseClearsOnError(i, o) ==
    /\ HomeIdle
    /\ i \in DOMAIN listReqs
    /\ listReqs' = Remove(listReqs, i)
    /\ listings' = CASE o = "ok" -> RunQuery(listReqs[i])
                     [] o = "error" -> <<>>
                     [] o = "reject" -> listings
    /\ loading' = FALSE
    /\ UNCHANGED <<notHome, brands, models, filters, showFilters,
                   homeEffects, brandsReq, modelReqs>>

\* fetchListings after its await, with the response to a request that a later
\* request has overtaken dropped
ListingsResponseStepDropsStale(i, o) ==
    /\ homeEffects = {}
    /\ i \in DOMAIN listReqs
    /\ listReqs' = Remove(listReqs, i)
    /\ listings' = IF o = "ok" /\ i > overtaken THEN RunQuery(listReqs[i]) ELSE listings
    /\ loading' = FALSE
    /\ UNCHANGED <<brands, models, filters, showFilters, homeEffects, brandsReq,
                   modelReqs>>

\* fetchListings after its await: if (error) throw error; setListings(data || []);
\* catch: log; finally: setLoading(false)
ListingsResponseStep(i, o) ==
    /\ homeEffects = {}
    /\ i \in DOMAIN listReqs
    /\ listReqs' = Remove(listReqs, i)
    /\ listings' = IF o = "ok" THEN RunQuery(listReqs[i]) ELSE listings
    /\ loading' = FALSE
    /\ UNCHANGED <<brands, models, filters, showFilters, homeEffects, brandsReq,
                   modelReqs>>

ListingsResponse(i, o) ==
    /\ page = "Home"
    /\ ListingsResponseStep(i, o)
    /\ UNCHANGED notHome

\* the response, watched: was the request it answers one that a later request,
\* answered with rows before, had overtaken
ListingsResponseWatched(i, o) ==
    /\ page = "Home"
    /\ ListingsResponseStep(i, o)
    /\ lastRead' = IF o = "ok"
                   THEN Some([stale |-> i <= overtaken, rows |-> RunQuery(listReqs[i])])
                   ELSE lastRead
    /\ overtaken' = IF i <= overtaken THEN overtaken - 1
                    ELSE IF o = "ok" THEN i - 1 ELSE overtaken
    /\ UNCHANGED <<notHomeState, calls, created>>

----------------------------------------------------------------------------
(* Strings of the images field: sequences of characters *)

Str(n) == UNION {[1..k -> {"a", "b", ",", " "}] : k \in 0..n}

RECURSIVE Split(_)
\* s.split(','): the pieces between the commas, empty ones included
Split(s) ==
    IF \A i \in DOMAIN s : s[i] # ","
    THEN <<s>>
    ELSE LET c == CHOOSE i \in DOMAIN s : s[i] = "," /\ \A j \in 1..(i - 1) : s[j] # ","
         IN <<SubSeq(s, 1, c - 1)>> \o Split(SubSeq(s, c + 1, Len(s)))

RECURSIVE TrimStart(_)
TrimStart(s) == IF s # <<>> /\ Head(s) = " " THEN TrimStart(Tail(s)) ELSE s

RECURSIVE TrimEnd(_)
TrimEnd(s) ==
    IF s # <<>> /\ s[Len(s)] = " " THEN TrimEnd(SubSeq(s, 1, Len(s) - 1)) ELSE s

\* url.trim()
Trim(s) == TrimEnd(TrimStart(s))

\* .map(url => url.trim())
TrimAll(arr) == [i \in DOMAIN arr |-> Trim(arr[i])]

\* the conversion without its filter: images.split(',').map(url => url.trim())
ImageArrayUnfiltered(images) == TrimAll(Split(images))

\* images.split(',').map(url => url.trim()).filter(url => url)
ImageArray(images) == SelectSeq(TrimAll(Split(images)), LAMBDA url : url # <<>>)

----------------------------------------------------------------------------
(* Numbers of the creation form: the text of a number input, and what parseInt *)
(* and parseFloat make of it. A number is the decimal m * 10^e, written with a  *)
(* mantissa that does not end in 0, or NaN                                      *)

DigitChars == <<"0", "1", "2", "3", "4", "5", "6", "7", "8", "9">>
IsDigit(c) == \E i \in DOMAIN DigitChars : DigitChars[i] = c
DigitValue(c) == (CHOOSE i \in DOMAIN DigitChars : DigitChars[i] = c) - 1

NaN == [nan |-> TRUE, m |-> 0, e |-> 0]

RECURSIVE Normal(_, _)
Normal(m, e) ==
    IF m = 0 THEN [nan |-> FALSE, m |-> 0, e |-> 0]
    ELSE IF m % 10 = 0 THEN Normal(m \div 10, e + 1)
    ELSE [nan |-> FALSE, m |-> m, e |-> e]

\* the integer n as a number
Int2Num(n) == Normal(n, 0)

RECURSIVE Pow10(_)
Pow10(k) == IF k = 0 THEN 1 ELSE 10 * Pow10(k - 1)

\* a number is an integer when its exponent is not negative; its value
IsInteger(x) == ~x.nan /\ x.e >= 0
IntValue(x) == x.m * Pow10(x.e)

\* how many digits s has in a row from position p on
DigitRun(s, p) ==
    CHOOSE n \in 0..Len(s) :
        /\ p + n - 1 <= Len(s)
        /\ \A j \in p..(p + n - 1) : IsDigit(s[j])
        /\ p + n <= Len(s) => ~IsDigit(s[p + n])

RECURSIVE DecimalValue(_)
\* the value of a sequence of digits
DecimalValue(ds) ==
    IF ds = <<>> THEN 0
    ELSE 10 * DecimalValue(SubSeq(ds, 1, Len(ds) - 1)) + DigitValue(ds[Len(ds)])

RECURSIVE ToText(_)
\* the digits of a natural number
ToText(n) == IF n < 10 THEN <<DigitChars[n + 1]>>
             ELSE ToText(n \div 10) \o <<DigitChars[(n % 10) + 1]>>

\* parseInt(s): blanks and a sign are skipped, then the digits up to the first
\* character that is none are the value; NaN when there is no digit
ParseInt(s) ==
    LET t == TrimStart(s)
        signed == t # <<>> /\ t[1] \in {"+", "-"}
        body == IF signed THEN Tail(t) ELSE t
        n == DigitRun(body, 1)
        v == DecimalValue(SubSeq(body, 1, n))
    IN IF n = 0 THEN NaN ELSE Normal(IF signed /\ t[1] = "-" THEN 0 - v ELSE v, 0)

\* parseFloat(s): blanks and a sign are skipped, then the longest prefix that is
\* digits, a point and digits, and an exponent is the value; NaN when there is
\* no digit before the exponent
ParseFloat(s) ==
    LET t == TrimStart(s)
        signed == t # <<>> /\ t[1] \in {"+", "-"}
        body == IF signed THEN Tail(t) ELSE t
        ip == DigitRun(body, 1)
        dot == ip + 1 <= Len(body) /\ body[ip + 1] = "."
        fp == IF dot THEN DigitRun(body, ip + 2) ELSE 0
        q == ip + (IF dot THEN 1 + fp ELSE 0)
        expSigned == q + 2 <= Len(body) /\ body[q + 2] \in {"+", "-"}
        ep == q + (IF expSigned THEN 3 ELSE 2)
        hasExp == /\ q + 1 <= Len(body) /\ body[q + 1] \in {"e", "E"}
                  /\ DigitRun(body, ep) > 0
        ev == DecimalValue(SubSeq(body, ep, ep + DigitRun(body, ep) - 1))
        ex == IF ~hasExp THEN 0 ELSE IF expSigned /\ body[q + 2] = "-" THEN 0 - ev ELSE ev
        mant == DecimalValue(SubSeq(body, 1, ip) \o SubSeq(body, ip + 2, ip + 1 + fp))
    IN IF ip + fp = 0 THEN NaN
       ELSE Normal(IF signed /\ t[1] = "-" THEN 0 - mant ELSE mant, ex - fp)

\* <input type="number" name="year" required min="1900" max={new Date().getFullYear()}>
MinYear == 1900
\* new Date().getFullYear(), on the day the form is rendered
CurrentYear == 2026

\* the constraint validation of the year input: a value is required, it is a
\* number, it is not under min nor over max, and it is min plus a whole number
\* of steps of 1
YearInputValid(t) ==
    /\ t # <<>>
    /\ LET v == ParseFloat(t)
       IN /\ IsInteger(v)
          /\ MinYear <= IntValue(v) /\ IntValue(v) <= CurrentYear

----------------------------------------------------------------------------
(* Errors: what a failed request throws or returns *)

Errors == { [instanceofError |-> TRUE,  message |-> "request failed"],
            [instanceofError |-> FALSE, message |-> "request failed"] }

\* error instanceof Error ? error.message : 'An error occurred'
ErrorMessage(e) == IF e.instanceofError THEN e.message ELSE "An error occurred"

----------------------------------------------------------------------------
(* ListingCreate: the brand -> model cascade *)

Users == {"u1", "u2"}

CreateIdle == page = "ListingCreate" /\ cEffects = {}

CModelOptions == {cModels[i].id : i \in DOMAIN cModels}
CBrandOptions == {cBrands[i] : i \in DOMAIN cBrands}

\* the model select after a render with a new option list: an option that is
\* still there stays selected, otherwise the first option ("Select Model") is
KeepSelected(value, options) == IF value \in options THEN value ELSE ""

\* useEffect(() => { fetchBrands(); }, [])
CreateMountEffect ==
    /\ page = "ListingCreate"
    /\ "mount" \in cEffects
    /\ cBrandsReq' = cBrandsReq + 1
    /\ cEffects' = cEffects \ {"mount"}
    /\ UNCHANGED <<page, location, notCreate, yearInput, cLoading, cError, cBrands, cModels,
                   selectedBrand, modelSelect, cModelReqs, submitPc, user, formData,
                   insertReq, insertResult>>

\* useEffect(() => { if (selectedBrand) fetchModels(..) else setModels([]) }, [selectedBrand])
SelectedBrandEffectStep ==
    /\ cEffects = {"selectedBrand"}
    /\ cEffects' = {}
    /\ IF selectedBrand # ""
       THEN /\ cModelReqs' = Append(cModelReqs, selectedBrand)
            /\ UNCHANGED <<cModels, modelSelect>>
       ELSE /\ cModels' = <<>>
            /\ modelSelect' = KeepSelected(modelSelect, {})
            /\ UNCHANGED cModelReqs
    /\ UNCHANGED <<yearInput, cLoading, cError, cBrands, selectedBrand, cBrandsReq,
                   submitPc, user, formData, insertReq, insertResult>>

\* the effect, run by ListingCreate mounted as the application's page
SelectedBrandEffect ==
    /\ page = "ListingCreate"
    /\ SelectedBrandEffectStep
    /\ UNCHANGED <<page, location, notCreate>>

\* onChange={(e) => setSelectedBrand(e.target.value)} of the brand select
SetSelectedBrandStep(v) ==
    /\ cEffects = {}
    /\ v \in CBrandOptions \cup {""}
    /\ v # selectedBrand
    /\ v # "" => Len(cModelReqs) < MaxInflight
    /\ selectedBrand' = v
    /\ cEffects' = {"selectedBrand"}
    /\ UNCHANGED <<yearInput, cLoading, cError, cBrands, cModels, modelSelect,
                   cBrandsReq, cModelReqs, submitPc, user, formData, insertReq,
                   insertResult>>

SetSelectedBrand(v) ==
    /\ page = "ListingCreate"
    /\ SetSelectedBrandStep(v)
    /\ UNCHANGED <<page, location, notCreate>>

\* the user picks an option of the model select (disabled={!selectedBrand}); the
\* select has no onChange, so nothing renders
PickModelStep(v) ==
    /\ cEffects = {}
    /\ selectedBrand # ""
    /\ v \in CModelOptions \cup {""}
    /\ v # modelSelect
    /\ modelSelect' = v
    /\ UNCHANGED <<yearInput, cLoading, cError, cBrands, cModels, selectedBrand,
                   cEffects, cBrandsReq, cModelReqs, submitPc, user, formData,
                   insertReq, insertResult>>

PickModel(v) ==
    /\ page = "ListingCreate"
    /\ PickModelStep(v)
    /\ UNCHANGED <<page, location, notCreate>>

\* ListingCreate's fetchBrands after its await: if (error) throw error;
\* setBrands(data || []); catch: log
CreateBrandsResponse(o) ==
    /\ CreateIdle
    /\ cBrandsReq > 0
    /\ cBrandsReq' = cBrandsReq - 1
    /\ cBrands' = IF o = "ok" THEN car_brands ELSE cBrands
    /\ UNCHANGED <<page, location, notCreate, yearInput, cLoading, cError, cModels,
                   selectedBrand, modelSelect, cEffects, cModelReqs, submitPc, user,
                   formData, insertReq, insertResult>>

\* ListingCreate's fetchModels after its await: if (error) throw error;
\* setModels(data || []); catch: log
CreateModelsAfterAwait(brandId, o) ==
    IF o = "ok" THEN SelectModels(brandId) ELSE cModels

CreateModelsResponseStep(i, o) ==
    /\ cEffects = {}
    /\ i \in DOMAIN cModelReqs
    /\ cModelReqs' = Remove(cModelReqs, i)
    /\ cModels' = CreateModelsAfterAwait(cModelReqs[i], o)
    /\ modelSelect' = KeepSelected(modelSelect, {cModels'[k].id : k \in DOMAIN cModels'})
    /\ UNCHANGED <<yearInput, cLoading, cError, cBrands, selectedBrand, cEffects,
                   cBrandsReq, submitPc, user, formData, insertReq, insertResult>>

CreateModelsResponse(i, o) ==
    /\ page = "ListingCreate"
    /\ CreateModelsResponseStep(i, o)
    /\ UNCHANGED <<page, location, notCreate>>

----------------------------------------------------------------------------
(* ListingCreate: handleSubmit *)

\* the texts the year input is given: none, the least year, a year in range,
\* a number written with an exponent, and next year
YearTexts == { <<>>, ToText(MinYear), <<"2", "0", "2", "1">>, <<"2", "e", "3">>,
               ToText(CurrentYear + 1) }

\* the user types into the year input, which is never disabled; the input has no
\* onChange, so nothing renders
TypeYear(t) ==
    /\ CreateIdle
    /\ t # yearInput
    /\ yearInput' = t
    /\ UNCHANGED <<page, location, notCreate, cLoading, cError, cBrands, cModels,
                   selectedBrand, modelSelect, cEffects, cBrandsReq, cModelReqs,
                   submitPc, user, formData, insertReq, insertResult>>

\* the years a user of the application types
TypedYears == { <<"2", "0", "2", "1">>, <<"2", "e", "3">> }

\* what the price, mileage, condition and transmission inputs can hold when the
\* form is read, which is after the submit event and its validation: a number
\* input holds no text or the text of a number, a select one of its options
FieldTexts ==
    [price : { <<"1", "5", "9", "9", "9", ".", "9", "9">>, <<"7", ".", "5", "0">>, <<>> },
     mileage : { <<"4", "2", "0", "0", "0">>, <<"1", "e", "3">>, <<>> },
     condition : {"", "new", "used", "certified"},
     transmission : {"", "automatic", "manual"}]

\* the form filled in as in the scenario of the specification
ScenarioTexts ==
    [price |-> <<"1", "5", "9", "9", "9", ".", "9", "9">>,
     mileage |-> <<"4", "2", "0", "0", "0">>,
     condition |-> "used", transmission |-> "manual"]

\* what the images input holds when the form is read
ImageTexts == { <<",", " ">>, <<"a", ",", " ", "b", ",">> }

\* what a field named seller_id, added to the form by the client, can hold
ExtraFields == {None, Some("u2")}

\* new FormData(form): the brand select shows selectedBrand, the model select its
\* own value; extra is a field named seller_id that a client may add to the form
FormData(images, extra, texts) ==
    [brand |-> selectedBrand, model |-> modelSelect, images |-> images,
     seller_id |-> extra, year |-> yearInput, price |-> texts.price,
     mileage |-> texts.mileage, condition |-> texts.condition,
     transmission |-> texts.transmission]

\* the row with the seller id taken from the form when the form has one
InsertRowSellerFromForm(u, fd) ==
    [seller_id |-> IF fd.seller_id # None THEN fd.seller_id[1] ELSE u.id,
     brand_id  |-> fd.brand,
     model_id  |-> fd.model,
     year      |-> ParseInt(fd.year),
     price     |-> ParseFloat(fd.price),
     mileage   |-> ParseInt(fd.mileage),
     condition |-> fd.condition,
     transmission |-> fd.transmission,
     images    |-> ImageArray(fd.images)]

\* the row with year and mileage converted by parseFloat
InsertRowParseFloat(u, fd) ==
    [seller_id |-> u.id,
     brand_id  |-> fd.brand,
     model_id  |-> fd.model,
     year      |-> ParseFloat(fd.year),
     price     |-> ParseFloat(fd.price),
     mileage   |-> ParseFloat(fd.mileage),
     condition |-> fd.condition,
     transmission |-> fd.transmission,
     images    |-> ImageArray(fd.images)]

\* the row handleSubmit inserts
InsertRow(u, fd) ==
    [seller_id |-> u.id,
     brand_id  |-> fd.brand,
     model_id  |-> fd.model,
     year      |-> ParseInt(fd.year),
     price     |-> ParseFloat(fd.price),
     mileage   |-> ParseInt(fd.mileage),
     condition |-> fd.condition,
     transmission |-> fd.transmission,
     images    |-> ImageArray(fd.images)]

\* the submit event of the form: the button is disabled while loading, and the
\* browser holds the event back while a required select shows its empty option
HandleSubmit ==
    /\ CreateIdle
    /\ submitPc = "idle"
    /\ ~cLoading
    /\ selectedBrand # "" /\ modelSelect # ""
    /\ YearInputValid(yearInput)
    /\ cLoading' = TRUE
    /\ cError' = None
    /\ submitPc' = "getUser"
    /\ user' = "unset"
    /\ formData' = None
    /\ insertResult' = None
    /\ UNCHANGED <<page, location, notCreate, yearInput, cBrands, cModels, selectedBrand,
                   modelSelect, cEffects, cBrandsReq, cModelReqs, insertReq>>

\* the no-user branch without its navigate('/login')
SubmitNoUserStays ==
    /\ CreateIdle
    /\ submitPc = "getUser"
    /\ user' = "null"
    /\ cLoading' = FALSE
    /\ submitPc' = "idle"
    /\ UNCHANGED <<page, location, notCreate, yearInput, cError, cBrands, cModels, selectedBrand,
                   modelSelect, cEffects, cBrandsReq, cModelReqs, formData, insertReq,
                   insertResult>>

\* handleSubmit after await supabase.auth.getUser(), with no user: navigate('/login')
SubmitNoUser ==
    /\ CreateIdle
    /\ submitPc = "getUser"
    /\ user' = "null"
    /\ location' = "/login"
    /\ page' = "left"
    /\ cLoading' = FALSE
    /\ submitPc' = "idle"
    /\ UNCHANGED <<notCreate, yearInput, cError, cBrands, cModels, selectedBrand, modelSelect,
                   cEffects, cBrandsReq, cModelReqs, formData, insertReq, insertResult>>

\* handleSubmit's catch without its finally: the error is set, loading stays
SubmitCatchKeepsLoading(e) ==
    /\ cError' = Some(ErrorMessage(e))
    /\ submitPc' = "idle"
    /\ UNCHANGED <<page, location, notCreate, yearInput, cLoading, cBrands, cModels,
                   selectedBrand, modelSelect, cEffects, cBrandsReq, cModelReqs, user,
                   formData, insertReq, insertResult>>

\* handleSubmit's catch and finally: setError(..); setLoading(false)
SubmitCatch(e) ==
    /\ cError' = Some(ErrorMessage(e))
    /\ cLoading' = FALSE
    /\ submitPc' = "idle"
    /\ UNCHANGED <<page, location, notCreate, yearInput, cBrands, cModels, selectedBrand,
                   modelSelect, cEffects, cBrandsReq, cModelReqs, user, formData,
                   insertReq, insertResult>>

\* handleSubmit when await supabase.auth.getUser() rejects
SubmitGetUserRejects(e) ==
    /\ CreateIdle
    /\ submitPc = "getUser"
    /\ SubmitCatch(e)

\* what new FormData(null) throws
TypeError == [instanceofError |-> TRUE, message |-> "TypeError"]

\* handleSubmit after getUser, with a user, when e.currentTarget is read after
\* the await and the event's dispatch is over: the dispatcher has set it to
\* null by then, and new FormData(null) throws
SubmitFormDataThrows ==
    /\ CreateIdle
    /\ submitPc = "getUser"
    /\ SubmitCatch(TypeError)

\* handleSubmit after getUser, with a user, when e.currentTarget still is the
\* form: the form is read now, as it is now, and the insert is sent
SubmitInsert(u, images, extra, texts) ==
    /\ CreateIdle
    /\ submitPc = "getUser"
    /\ user' = u
    /\ formData' = Some(FormData(images, extra, texts))
    /\ insertReq' = Some(InsertRow([id |-> u], formData'[1]))
    /\ submitPc' = "insert"
    /\ UNCHANGED <<page, location, notCreate, yearInput, cLoading, cError, cBrands, cModels,
                   selectedBrand, modelSelect, cEffects, cBrandsReq, cModelReqs,
                   insertResult>>

\* the continuation without "if (listingError) throw listingError"
InsertResponseIgnoresError(o, e) ==
    /\ CreateIdle
    /\ submitPc = "insert"
    /\ insertReq' = None
    /\ insertResult' = Some(o)
    /\ cLoading' = FALSE
    /\ submitPc' = "idle"
    /\ location' = "/"
    /\ page' = "left"
    /\ user' = "unset"
    /\ formData' = None
    /\ UNCHANGED <<notCreate, yearInput, cError, cBrands, cModels, selectedBrand, modelSelect,
                   cEffects, cBrandsReq, cModelReqs>>

\* handleSubmit after the insert's await: if (listingError) throw listingError;
\* navigate('/'); catch: setError(..); finally: setLoading(false); the call's
\* locals end with it
InsertResponse(o, e) ==
    /\ CreateIdle
    /\ submitPc = "insert"
    /\ insertReq' = None
    /\ insertResult' = Some(o)
    /\ cLoading' = FALSE
    /\ submitPc' = "idle"
    /\ IF o = "ok"
       THEN /\ location' = "/"
            /\ page' = "left"
            /\ UNCHANGED cError
       ELSE /\ cError' = Some(ErrorMessage(e))
            /\ UNCHANGED <<page, location>>
    /\ user' = "unset"
    /\ formData' = None
    /\ UNCHANGED <<notCreate, yearInput, cBrands, cModels, selectedBrand, modelSelect, cEffects,
                   cBrandsReq, cModelReqs>>

----------------------------------------------------------------------------
(* ListingDetails *)

ListingIds == {r.id : r \in car_listings}

\* .eq('id', listingId).single(): the row when exactly one matches, else an error
Single(rows) ==
    IF Cardinality(rows) = 1
    THEN [data |-> Some((CHOOSE r \in rows : TRUE).id), error |-> None]
    ELSE [data |-> None,
          error |-> Some([instanceofError |-> FALSE, message |-> "PGRST116"])]

\* useEffect(() => { if (id) fetchListing(id); }, [id])
DetailsMountEffect ==
    /\ page = "ListingDetails"
    /\ dEffects = {"id"}
    /\ dEffects' = {}
    /\ detailReq' = IF id # "" THEN Some(id) ELSE None
    /\ UNCHANGED <<notDetail, id, listing, dLoading, dError, detailResponse>>

\* fetchListing after its await: if (error) throw error; setListing(data);
\* catch: setError(..); finally: setLoading(false)
FetchListingAfterAwait(r) ==
    /\ detailResponse' = Some(r)
    /\ IF r.error # None
       THEN /\ dError' = Some(ErrorMessage(r.error[1]))
            /\ UNCHANGED listing
       ELSE /\ listing' = r.data
            /\ UNCHANGED dError
    /\ dLoading' = FALSE

\* the backend answers the read
DetailServed ==
    /\ page = "ListingDetails" /\ dEffects = {}
    /\ detailReq # None
    /\ detailReq' = None
    /\ FetchListingAfterAwait(
          [served |-> TRUE] @@ Single({r \in car_listings : r.id = detailReq[1]}))
    /\ UNCHANGED <<notDetail, id, dEffects>>

\* the failed read with a catch that calls fetchListing again: the same read is
\* in flight once more
DetailFailedRetries(e) ==
    /\ page = "ListingDetails" /\ dEffects = {}
    /\ detailReq # None
    /\ detailReq' = detailReq
    /\ FetchListingAfterAwait([served |-> FALSE, data |-> None, error |-> Some(e)])
    /\ UNCHANGED <<notDetail, id, dEffects>>

\* the read fails on the way: an error comes back, or the promise rejects
DetailFailed(e) ==
    /\ page = "ListingDetails" /\ dEffects = {}
    /\ detailReq # None
    /\ detailReq' = None
    /\ FetchListingAfterAwait([served |-> FALSE, data |-> None, error |-> Some(e)])
    /\ UNCHANGED <<notDetail, id, dEffects>>

----------------------------------------------------------------------------
(* The backend: row level security on car_listings and profiles (part_000).   *)
(* A client sends a statement as an actor: auth.uid() is the actor's identity, *)
(* or NULL for a client that is not signed in                                  *)

\* the CREATE POLICY statements of the schema
PolicyStatements ==
    { [name |-> "Public profiles are viewable by everyone",
       table |-> "profiles", cmd |-> "SELECT", roles |-> "public",
       using |-> Some("true"), check |-> None],
      [name |-> "Users can update own profile",
       table |-> "profiles", cmd |-> "UPDATE", roles |-> "public",
       using |-> Some("auth.uid() = id"), check |-> None],
      [name |-> "Anyone can view listings",
       table |-> "car_listings", cmd |-> "SELECT", roles |-> "public",
       using |-> Some("true"), check |-> None],
      [name |-> "Authenticated users can create listings",
       table |-> "car_listings", cmd |-> "INSERT", roles |-> "authenticated",
       using |-> None, check |-> Some("auth.uid() = seller_id")],
      [name |-> "Users can update own listings",
       table |-> "car_listings", cmd |-> "UPDATE", roles |-> "public",
       using |-> Some("auth.uid() = seller_id"), check |-> None],
      [name |-> "Users can delete own listings",
       table |-> "car_listings", cmd |-> "DELETE", roles |-> "public",
       using |-> Some("auth.uid() = seller_id"), check |-> None],
      [name |-> "Allow authenticated users to insert profiles",
       table |-> "profiles", cmd |-> "INSERT", roles |-> "public",
       using |-> Some("auth.uid() IS NOT NULL"), check |-> None] }

\* CREATE POLICY: the policy a statement leaves in the catalog. A policy FOR
\* INSERT takes a WITH CHECK expression only, and the statement that gives it a
\* USING expression is rejected ("only WITH CHECK expression allowed for
\* INSERT") and leaves none; without WITH CHECK, the USING expression of an
\* UPDATE policy also checks the new row
CreatePolicy(st) ==
    IF st.cmd = "INSERT" /\ st.using # None
    THEN {}
    ELSE { [table |-> st.table, cmd |-> st.cmd, roles |-> st.roles, using |-> st.using,
            check |-> IF st.check # None THEN st.check ELSE st.using] }

\* the policies in force once the schema has been run, statement by statement
Policies == UNION {CreatePolicy(st) : st \in PolicyStatements}

\* the role of a request: authenticated with an identity, anon without
Role(uid) == IF uid = None THEN "anon" ELSE "authenticated"

\* an expression of a policy on a row; a comparison with NULL is not true
Eval(expr, uid, row) ==
    CASE expr = "true" -> TRUE
      [] expr = "auth.uid() = seller_id" -> uid # None /\ uid[1] = row.seller_id
      [] expr = "auth.uid() = id" -> uid # None /\ uid[1] = row.id
      [] expr = "auth.uid() IS NOT NULL" -> uid # None

\* the policies of a table that apply to a command of a role
Applicable(table, cmd, uid) ==
    {p \in Policies : /\ p.table = table /\ p.cmd = cmd
                      /\ p.roles \in {"public", Role(uid)}}

\* a row passes whenever a policy applies, whatever its expression says
PassesUsingAnyPolicy(table, cmd, uid, row) == Applicable(table, cmd, uid) # {}

\* ALTER TABLE .. ENABLE ROW LEVEL SECURITY: a row passes when some applicable
\* policy's expression is true of it, and no row passes when none applies
PassesUsing(table, cmd, uid, row) ==
    \E p \in Applicable(table, cmd, uid) : Eval(p.using[1], uid, row)
PassesCheck(table, cmd, uid, row) ==
    \E p \in Applicable(table, cmd, uid) : Eval(p.check[1], uid, row)

\* the identities of auth.users, the ids a listing can get, and the values of
\* the one other column a statement writes
Identities == {"u1", "u2", "u3"}
ListingRowIds == {"x1", "x2"}
Cells == {0, 1}

ListingRow == [id : ListingRowIds, seller_id : Identities, price : Cells]
ProfileRow == [id : Identities, full_name : Cells]
Actors == {None} \cup {Some(u) : u \in Identities}

RowIds(rows) == {r.id : r \in rows}

Op(uid, table, cmd, old, new, accepted, result) ==
    [actor |-> uid, table |-> table, cmd |-> cmd, old |-> old, new |-> new,
     accepted |-> accepted, result |-> result]

\* select * from car_listings, as uid
SelectListings(uid) ==
    /\ lastOp' = Some(Op(uid, "car_listings", "SELECT", None, None, TRUE,
                    {r \in listingRows : PassesUsing("car_listings", "SELECT", uid, r)}))
    /\ UNCHANGED <<notBackend, listingRows, profileRows>>

\* insert into car_listings values (new), as uid: the new row must pass the
\* WITH CHECK of an insert policy; its id is new (PRIMARY KEY) and its seller
\* has a profile (REFERENCES profiles(id))
InsertListing(uid, new) ==
    /\ new.id \notin RowIds(listingRows)
    /\ LET ok == /\ PassesCheck("car_listings", "INSERT", uid, new)
                 /\ new.seller_id \in RowIds(profileRows)
       IN /\ listingRows' = IF ok THEN listingRows \cup {new} ELSE listingRows
          /\ lastOp' = Some(Op(uid, "car_listings", "INSERT", None, Some(new), ok, {}))
    /\ UNCHANGED <<notBackend, profileRows>>

\* update car_listings set .. where id = old.id, as uid: the row must pass the
\* USING of an update policy, else the statement updates no row; the new row
\* must pass the check, else the statement fails
UpdateListing(uid, old, new) ==
    /\ old \in listingRows
    /\ new.id = old.id /\ new # old
    /\ LET ok == /\ PassesUsing("car_listings", "UPDATE", uid, old)
                 /\ PassesCheck("car_listings", "UPDATE", uid, new)
                 /\ new.seller_id \in RowIds(profileRows)
       IN /\ listingRows' = IF ok THEN (listingRows \ {old}) \cup {new} ELSE listingRows
          /\ lastOp' = Some(Op(uid, "car_listings", "UPDATE", Some(old), Some(new), ok, {}))
    /\ UNCHANGED <<notBackend, profileRows>>

\* delete from car_listings where id = old.id, as uid
DeleteListing(uid, old) ==
    /\ old \in listingRows
    /\ LET ok == PassesUsing("car_listings", "DELETE", uid, old)
       IN /\ listingRows' = IF ok THEN listingRows \ {old} ELSE listingRows
          /\ lastOp' = Some(Op(uid, "car_listings", "DELETE", Some(old), None, ok, {}))
    /\ UNCHANGED <<notBackend, profileRows>>

\* insert into profiles values (new), as uid; the id is new and is the id of a
\* row of auth.users
InsertProfile(uid, new) ==
    /\ new.id \notin RowIds(profileRows)
    /\ LET ok == PassesCheck("profiles", "INSERT", uid, new)
       IN /\ profileRows' = IF ok THEN profileRows \cup {new} ELSE profileRows
          /\ lastOp' = Some(Op(uid, "profiles", "INSERT", None, Some(new), ok, {}))
    /\ UNCHANGED <<notBackend, listingRows>>

\* update profiles set full_name = .. where id = old.id, as uid
UpdateProfile(uid, old, new) ==
    /\ old \in profileRows
    /\ new.id = old.id /\ new # old
    /\ LET ok == /\ PassesUsing("profiles", "UPDATE", uid, old)
                 /\ PassesCheck("profiles", "UPDATE", uid, new)
       IN /\ profileRows' = IF ok THEN (profileRows \ {old}) \cup {new} ELSE profileRows
          /\ lastOp' = Some(Op(uid, "profiles", "UPDATE", Some(old), Some(new), ok, {}))
    /\ UNCHANGED <<notBackend, listingRows>>

\* the tables before any client statement: no listing, and the profiles that
\* the trigger on auth.users made for the identities created after it
BackendInit ==
    /\ listingRows = {}
    /\ profileRows = {[id |-> "u1", full_name |-> 0], [id |-> "u2", full_name |-> 0]}
    /\ lastOp = None

BackendNext ==
    \/ \E uid \in Actors : SelectListings(uid)
    \/ \E uid \in Actors, new \in ListingRow : InsertListing(uid, new)
    \/ \E uid \in Actors, old \in ListingRow, new \in ListingRow :
          UpdateListing(uid, old, new)
    \/ \E uid \in Actors, old \in ListingRow : DeleteListing(uid, old)
    \/ \E uid \in Actors, new \in ProfileRow : InsertProfile(uid, new)
    \/ \E uid \in Actors, old \in ProfileRow, new \in ProfileRow :
          UpdateProfile(uid, old, new)

----------------------------------------------------------------------------
(* Profile *)

\* useEffect(() => { fetchProfile(); }, []): fetchProfile up to its first await
ProfileMountEffect ==
    /\ page = "Profile"
    /\ pEffects = {"mount"}
    /\ pEffects' = {}
    /\ pPc' = "getUser"
    /\ UNCHANGED <<page, location, notProfile, profile, pLoading, pError, pUser,
                   profileReq, profileReads>>

\* the no-user branch throwing instead of navigating: the catch shows the error
FetchProfileNoUserSetsError ==
    /\ page = "Profile" /\ pEffects = {}
    /\ pPc = "getUser"
    /\ pUser' = "null"
    /\ pError' = Some("Not authenticated")
    /\ pLoading' = FALSE
    /\ pPc' = "done"
    /\ UNCHANGED <<page, location, notProfile, profile, pEffects, profileReq,
                   profileReads>>

\* fetchProfile after await supabase.auth.getUser(), with no user:
\* navigate('/login'); return; finally: setLoading(false)
FetchProfileNoUser ==
    /\ page = "Profile" /\ pEffects = {}
    /\ pPc = "getUser"
    /\ pUser' = "null"
    /\ location' = "/login"
    /\ page' = "left"
    /\ pLoading' = FALSE
    /\ pPc' = "done"
    /\ UNCHANGED <<notProfile, profile, pError, pEffects, profileReq, profileReads>>

\* fetchProfile when await supabase.auth.getUser() rejects: catch and finally
FetchProfileGetUserRejects(e) ==
    /\ page = "Profile" /\ pEffects = {}
    /\ pPc = "getUser"
    /\ pError' = Some(ErrorMessage(e))
    /\ pLoading' = FALSE
    /\ pPc' = "done"
    /\ UNCHANGED <<page, location, notProfile, profile, pEffects, pUser, profileReq,
                   profileReads>>

\* fetchProfile after getUser, with a user: the read of the user's profile is sent
FetchProfileSelect(u) ==
    /\ page = "Profile" /\ pEffects = {}
    /\ pPc = "getUser"
    /\ pUser' = u
    /\ profileReq' = Some(u)
    /\ profileReads' = profileReads + 1
    /\ pPc' = "select"
    /\ UNCHANGED <<page, location, notProfile, profile, pLoading, pError, pEffects>>

\* fetchProfile after the read's await: if (error) throw error; setProfile(data);
\* catch: setError(..); finally: setLoading(false)
FetchProfileAfterAwait(r) ==
    /\ profileReq' = None
    /\ IF r.error # None
       THEN /\ pError' = Some(ErrorMessage(r.error[1]))
            /\ UNCHANGED profile
       ELSE /\ profile' = r.data
            /\ UNCHANGED pError
    /\ pLoading' = FALSE
    /\ pPc' = "done"
    /\ UNCHANGED <<page, location, notProfile, pEffects, pUser, profileReads>>

\* the backend answers the read: .eq('id', user.id).single()
ProfileServed ==
    /\ page = "Profile" /\ pEffects = {}
    /\ pPc = "select"
    /\ FetchProfileAfterAwait(Single({r \in profileRows : r.id = profileReq[1]}))

\* the read fails on the way
ProfileFailed(e) ==
    /\ page = "Profile" /\ pEffects = {}
    /\ pPc = "select"
    /\ FetchProfileAfterAwait([data |-> None, error |-> Some(e)])

\* handleSignOut up to its await; the button is there once the profile is shown
HandleSignOut ==
    /\ page = "Profile" /\ pEffects = {}
    /\ pPc = "done"
    /\ ~pLoading /\ pError = None /\ profile # None
    /\ pPc' = "signOut"
    /\ UNCHANGED <<page, location, notProfile, profile, pLoading, pError, pEffects,
                   pUser, profileReq, profileReads>>

\* handleSignOut after await supabase.auth.signOut(): navigate('/')
SignedOut ==
    /\ page = "Profile" /\ pEffects = {}
    /\ pPc = "signOut"
    /\ location' = "/"
    /\ page' = "left"
    /\ pPc' = "done"
    /\ UNCHANGED <<notProfile, profile, pLoading, pError, pEffects, pUser,
                   profileReq, profileReads>>

----------------------------------------------------------------------------
(* The application: App's router mounts one page *)

HomeInit ==
    /\ listings = <<>>
    /\ loading = TRUE
    /\ brands = <<>>
    /\ models = <<>>
    /\ filters = EmptyFilters
    /\ showFilters = FALSE
    /\ brandsReq = 0
    /\ modelReqs = <<>>
    /\ listReqs = <<>>

CreateInit ==
    /\ cLoading = FALSE
    /\ cError = None
    /\ cBrands = <<>>
    /\ cModels = <<>>
    /\ selectedBrand = ""
    /\ modelSelect = ""
    /\ yearInput = <<>>
    /\ cBrandsReq = 0
    /\ cModelReqs = <<>>
    /\ submitPc = "idle"
    /\ user = "unset"
    /\ formData = None
    /\ insertReq = None
    /\ insertResult = None

ObserverInit ==
    /\ overtaken = 0
    /\ lastRead = None
    /\ calls = <<>>
    /\ created = 0

ProfileInit ==
    /\ profile = None
    /\ pLoading = TRUE
    /\ pError = None
    /\ pPc = "idle"
    /\ pUser = "unset"
    /\ profileReq = None
    /\ profileReads = 0

DetailsInit ==
    /\ listing = None
    /\ dLoading = TRUE
    /\ dError = None
    /\ detailReq = None
    /\ detailResponse = None

\* the ids a /listings/:id path is opened with: a listing's, and one of no listing
OpenedIds == {"l1", "l9"}

----------------------------------------------------------------------------
(* App's routes and Home's links. A path is the sequence of its segments: "/" *)
(* is <<>>, "/listings/create" is <<"listings", "create">>                     *)

\* <Routes>: the path of each <Route>, as segments and as written, and its element
Routes ==
    { [path |-> <<>>,                      text |-> "/",                element |-> "Home"],
      [path |-> <<"login">>,               text |-> "/login",           element |-> "Login"],
      [path |-> <<"register">>,            text |-> "/register",        element |-> "Register"],
      [path |-> <<"listings", "create">>,  text |-> "/listings/create", element |-> "ListingCreate"],
      [path |-> <<"listings", ":id">>,     text |-> "/listings/:id",    element |-> "ListingDetails"],
      [path |-> <<"profile">>,             text |-> "/profile",         element |-> "Profile"] }

\* a segment of a route's path that stands for a parameter
IsParam(seg) == seg = ":id"

\* a route matches a path of as many segments whose segments are the route's,
\* but for the parameters
RouteMatches(route, path) ==
    /\ Len(route.path) = Len(path)
    /\ \A i \in DOMAIN path : IsParam(route.path[i]) \/ route.path[i] = path[i]

\* how many segments of a route are no parameter: of the routes that match, the
\* router takes the one with the most
StaticSegments(route) == Cardinality({i \in DOMAIN route.path : ~IsParam(route.path[i])})

\* the value a path gives to the parameter of a route, "" when it has none
ParamOf(route, path) ==
    IF \E i \in DOMAIN route.path : IsParam(route.path[i])
    THEN path[CHOOSE i \in DOMAIN route.path : IsParam(route.path[i])]
    ELSE ""

\* what the router renders at a path: the element of the best route that
\* matches, with its parameter, or nothing when no route matches
MatchRoutes(path) ==
    LET matching == {r \in Routes : RouteMatches(r, path)}
    IN IF matching = {}
       THEN [element |-> "NoMatch", text |-> "no route", id |-> ""]
       ELSE LET best == CHOOSE r \in matching :
                            \A q \in matching : StaticSegments(q) <= StaticSegments(r)
            IN [element |-> best.element, text |-> best.text, id |-> ParamOf(best, path)]

\* the two links of a listing's card: the image and 'View Details'
ListingLinks == {"image", "View Details"}

\* <Link to={`/car/${listing.id}`}>, which both links are
LinkTo(link, l) == <<"car", l>>

\* a click on a link of a listing's card, which is there once loading is over:
\* Home is unmounted, its state is gone, and the router renders what matches
ClickListingLink(link, l) ==
    /\ HomeIdle /\ ~loading
    /\ \E i \in DOMAIN listings : listings[i] = l
    /\ LET r == MatchRoutes(LinkTo(link, l))
       IN /\ page' = r.element
          /\ location' = r.text
          /\ id' = r.id
          /\ dEffects' = IF r.element = "ListingDetails" THEN {"id"} ELSE dEffects
    /\ listings' = <<>> /\ loading' = TRUE /\ brands' = <<>> /\ models' = <<>>
    /\ filters' = EmptyFilters /\ showFilters' = FALSE /\ homeEffects' = {}
    /\ brandsReq' = 0 /\ modelReqs' = <<>> /\ listReqs' = <<>>
    /\ UNCHANGED <<createVars, backendVars, profileVars, observerVars,
                   listing, dLoading, dError, detailReq, detailResponse>>

\* <Route path=.. element=.. />: the page of the path the application is opened at
Init ==
    /\ HomeInit /\ CreateInit /\ DetailsInit /\ BackendInit /\ ProfileInit /\ ObserverInit
    /\ \/ /\ location = "/" /\ page = "Home"
          /\ homeEffects = {"mount", "brand_id"} /\ cEffects = {} /\ dEffects = {}
          /\ pEffects = {} /\ id = ""
       \/ /\ location = "/listings/create" /\ page = "ListingCreate"
          /\ homeEffects = {} /\ cEffects = {"mount", "selectedBrand"} /\ dEffects = {}
          /\ pEffects = {} /\ id = ""
       \/ /\ location = "/listings/:id" /\ page = "ListingDetails"
          /\ homeEffects = {} /\ cEffects = {} /\ dEffects = {"id"}
          /\ pEffects = {} /\ id \in OpenedIds
       \/ /\ location = "/profile" /\ page = "Profile"
          /\ homeEffects = {} /\ cEffects = {} /\ dEffects = {}
          /\ pEffects = {"mount"} /\ id = ""

HomeNext ==
    \/ HomeMountEffect
    \/ BrandIdEffect
    \/ \E v \in BrandIds \cup {""} : ChangeBrand(v)
    \/ \E v \in ModelIds \cup {""} : ChangeModel(v)
    \/ ToggleFilters
    \/ ApplyFilters
    \/ ResetFilters
    \/ \E o \in Outcomes : BrandsResponse(o)
    \/ \E i \in 1..MaxInflight, o \in Outcomes : ModelsResponse(i, o)
    \/ \E i \in 1..MaxInflight, o \in Outcomes : ListingsResponse(i, o)
    \/ \E link \in ListingLinks, l \in ListingIds : ClickListingLink(link, l)

CreateNext ==
    \/ CreateMountEffect
    \/ SelectedBrandEffect
    \/ \E v \in BrandIds \cup {""} : SetSelectedBrand(v)
    \/ \E v \in ModelIds \cup {""} : PickModel(v)
    \/ \E o \in Outcomes : CreateBrandsResponse(o)
    \/ \E i \in 1..MaxInflight, o \in Outcomes : CreateModelsResponse(i, o)
    \/ HandleSubmit
    \/ SubmitNoUser
    \/ \E e \in Errors : SubmitGetUserRejects(e)
    \/ SubmitFormDataThrows
    \/ \E t \in TypedYears : TypeYear(t)
    \/ \E u \in Users, images \in ImageTexts, extra \in ExtraFields :
          SubmitInsert(u, images, extra, ScenarioTexts)
    \/ \E o \in Outcomes, e \in Errors : InsertResponse(o, e)

DetailsNext ==
    \/ DetailsMountEffect
    \/ DetailServed
    \/ \E e \in Errors : DetailFailed(e)

ProfileNext ==
    \/ ProfileMountEffect
    \/ FetchProfileNoUser
    \/ \E e \in Errors : FetchProfileGetUserRejects(e)
    \/ \E u \in Identities : FetchProfileSelect(u)
    \/ ProfileServed
    \/ \E e \in Errors : ProfileFailed(e)
    \/ HandleSignOut
    \/ SignedOut

Next == HomeNext \/ CreateNext \/ DetailsNext \/ ProfileNext

Spec == Init /\ [][Next]_vars

----------------------------------------------------------------------------
(* The filter form filled in, then Apply Filters: Home with every field of the *)
(* form set by its onChange handler, the brands and the chosen brand's models  *)
(* loaded and the first listing read answered                                  *)

\* what the inputs of the form can hold
FormInputs ==
    [brand_id : BrandIds \cup {""}, model_id : ModelIds \cup {""},
     transmission : {"", "automatic", "manual"}, condition : {"", "used"},
     minPrice : NumTexts, maxPrice : NumTexts, minYear : NumTexts,
     maxYear : NumTexts, minMileage : NumTexts, maxMileage : NumTexts]

\* the filters after handleFilterChange has run for each input's onChange
FiltersOf(inp) ==
    [k \in FieldNames |->
        IF k \in NumFields THEN NumberValue(inp[k]) ELSE SelectValue(inp[k])]

InitQuery ==
    /\ CreateInit /\ DetailsInit /\ BackendInit /\ ProfileInit /\ ObserverInit /\ pEffects = {}
    /\ location = "/" /\ page = "Home" /\ id = ""
    /\ homeEffects = {} /\ cEffects = {} /\ dEffects = {}
    /\ \E inp \in FormInputs :
          /\ inp.model_id # "" => inp.brand_id # ""
          /\ filters = FiltersOf(inp)
          /\ models = IF inp.brand_id # "" THEN SelectModels(inp.brand_id) ELSE <<>>
    /\ listings = RunQuery({})
    /\ loading = FALSE
    /\ brands = car_brands
    /\ showFilters = TRUE
    /\ brandsReq = 0
    /\ modelReqs = <<>>
    /\ listReqs = <<>>

NextQuery ==
    \/ ApplyFilters
    \/ \E i \in 1..MaxInflight, o \in Outcomes : ListingsResponse(i, o)

SpecQuery == InitQuery /\ [][NextQuery]_vars

\* the predicate the filter builder's contract gives a field that is present
PredOf(k, v) ==
    CASE k = "brand_id"     -> Pred("brand_id", "eq", v)
      [] k = "model_id"     -> Pred("model_id", "eq", v)
      [] k = "transmission" -> Pred("transmission", "eq", v)
      [] k = "condition"    -> Pred("condition", "eq", v)
      [] k = "minPrice"     -> Pred("price", "gte", v)
      [] k = "maxPrice"     -> Pred("price", "lte", v)
      [] k = "minYear"      -> Pred("year", "gte", v)
      [] k = "maxYear"      -> Pred("year", "lte", v)
      [] k = "minMileage"   -> Pred("mileage", "gte", v)
      [] k = "maxMileage"   -> Pred("mileage", "lte", v)

\* one predicate per present field, none for an absent one
ExactQuery(f) == {PredOf(k, f[k][1]) : k \in {x \in FieldNames : f[x] # None}}

\* C1: the listing query applies exactly the conjunction of one predicate per
\* present field of the filter set (equality for brand, model, transmission and
\* condition, >= for a min and <= for a max) and none for an absent field; with
\* the empty filter set the rows that come back are all listings, newest first.
C1_QueryIsExactConjunction ==
    /\ \A i \in DOMAIN listReqs : listReqs[i] = ExactQuery(filters)
    /\ \A i \in DOMAIN listReqs :
          filters = EmptyFilters => RunQuery(listReqs[i]) = NewestFirst(car_listings)

\* C2: a numeric range field that is present with the value 0 is applied to the
\* listing query as a predicate: every present range field, zero or not, has its
\* predicate in every query issued.
C2_PresentZeroIsApplied ==
    \A i \in DOMAIN listReqs : \A k \in NumFields :
        filters[k] # None => PredOf(k, filters[k][1]) \in listReqs[i]

\* the ids of the rows a read returned
Ids(rows) == {rows[i] : i \in DOMAIN rows}

\* C11: for a filter set of a brand id, a min price and a max price, the rows
\* the query returns are exactly the listings of that brand whose price p has
\* min <= p <= max, both ends included.
C11_BrandAndPriceRange ==
    \A i \in DOMAIN listReqs :
        (/\ filters.brand_id # None /\ filters.minPrice # None /\ filters.maxPrice # None
         /\ \A k \in FieldNames \ {"brand_id", "minPrice", "maxPrice"} : filters[k] = None)
        => Ids(RunQuery(listReqs[i])) =
              {r.id : r \in {x \in car_listings :
                                /\ x.brand_id = filters.brand_id[1]
                                /\ filters.minPrice[1] <= x.price
                                /\ x.price <= filters.maxPrice[1]}}

\* C15: when a listing read fails, the listings displayed, the filter set and
\* the brand and model lists stay as they are: all that changes is that the
\* loading flag is cleared (and that the request is in flight no longer).
C15_FailedReadLeavesState ==
    [][(\E i \in DOMAIN listReqs, o \in {"error", "reject"} : ListingsResponse(i, o))
          => /\ listings' = listings /\ filters' = filters
             /\ brands' = brands /\ models' = models
             /\ loading' = FALSE
             /\ \E i \in DOMAIN listReqs : listReqs' = Remove(listReqs, i)
             /\ UNCHANGED <<showFilters, homeEffects, brandsReq, modelReqs, notHome>>]_vars

\* Apply Filters was clicked with filters that select other rows than the ones
\* displayed, its read has been answered, and the rows displayed are still the
\* ones from before: the read failed
C15_Witness ==
    /\ page = "Home" /\ ~showFilters /\ listReqs = <<>> /\ ~loading
    /\ listings = RunQuery({})
    /\ RunQuery(BuildQuery(filters)) # listings

----------------------------------------------------------------------------
(* The brand -> model coupling of the filter form *)

\* C3: whenever the selected brand changes, to another brand or to no brand, the
\* model filter is reset to unselected: the brand_id effect, which runs on every
\* change of the brand, leaves no model selected.
C3_BrandChangeResetsModel ==
    [][(page = "Home" /\ homeEffects = {"brand_id"} /\ homeEffects' = {})
          => filters'.model_id = None]_vars

\* C18: once a brand is selected and every model fetch in flight has resolved,
\* the model list offered is exactly the models of the brand now selected,
\* whatever brands were selected before and in whatever order the responses
\* arrived.
C18_ResolvedModelsAreOfBrand ==
    /\ (page = "Home" /\ homeEffects = {} /\ filters.brand_id # None /\ modelReqs = <<>>)
          => models = SelectModels(filters.brand_id[1])
    /\ (page = "ListingCreate" /\ cEffects = {} /\ selectedBrand # ""
            /\ cModelReqs = <<>>)
          => cModels = SelectModels(selectedBrand)

----------------------------------------------------------------------------
(* The create submission *)

\* C4: a submission that finds no authenticated identity sends no insert and
\* navigates to the login view, whatever the form holds.
C4_NoUserNoInsert ==
    user = "null" =>
        /\ location = "/login" /\ page = "left"
        /\ formData = None /\ insertReq = None /\ insertResult = None

C4_Witness == user = "null" /\ location = "/login" /\ selectedBrand # ""

\* C5: every insert carries as seller id the identity getUser returned to this
\* submission, whatever the form holds, a field named seller_id included.
C5_SellerIsAuthenticatedUser ==
    insertReq # None => user \in Users /\ insertReq[1].seller_id = user

C5_Witness ==
    /\ insertReq # None /\ user = "u1"
    /\ formData # None /\ formData[1].seller_id = Some("u2")

\* C7: every listing the form submits has a model that belongs to the brand it
\* is submitted with.
C7_ModelBelongsToBrand ==
    (insertReq # None /\ insertReq[1].model_id \in ModelIds)
        => BrandOf(insertReq[1].model_id) = insertReq[1].brand_id

\* C9: once a submission with an authenticated identity is over, a successful
\* insert has navigated to the listing index with no error shown, and a failed
\* insert has set the error and navigated nowhere.
C9_InsertOutcome ==
    insertResult # None =>
        IF insertResult[1] = "ok"
        THEN location = "/" /\ page = "left" /\ cError = None
        ELSE cError # None /\ location = "/listings/create" /\ page = "ListingCreate"

C9_Witness == insertResult = Some("error") /\ cError # None /\ ~cLoading

----------------------------------------------------------------------------
(* The detail view *)

\* C6: a listing id with no row ends in the 'Listing not found' state: no error
\* set, listing null, loading false.
C6_NoRowIsNotFound ==
    (page = "ListingDetails" /\ detailResponse # None /\ detailResponse[1].served
        /\ id \notin ListingIds)
    => (dError = None /\ listing = None /\ ~dLoading)

----------------------------------------------------------------------------
(* The images field: the form submitted with a brand and one of its models     *)
(* chosen, getUser about to answer, and any text in the images input           *)

InitImages ==
    /\ HomeInit /\ DetailsInit /\ BackendInit /\ ProfileInit /\ ObserverInit /\ pEffects = {}
    /\ location = "/listings/create" /\ page = "ListingCreate" /\ id = ""
    /\ homeEffects = {} /\ cEffects = {} /\ dEffects = {}
    /\ cLoading = TRUE
    /\ cError = None
    /\ cBrands = car_brands
    /\ selectedBrand = "b1"
    /\ cModels = SelectModels(selectedBrand)
    /\ modelSelect = "m1"
    /\ yearInput = <<"2", "0", "2", "1">>
    /\ cBrandsReq = 0
    /\ cModelReqs = <<>>
    /\ submitPc = "getUser"
    /\ user = "unset"
    /\ formData = None
    /\ insertReq = None
    /\ insertResult = None

NextImages ==
    \/ \E images \in Str(MaxLen) : SubmitInsert("u1", images, None, ScenarioTexts)
    \/ SubmitFormDataThrows
    \/ \E o \in Outcomes, e \in Errors : InsertResponse(o, e)

SpecImages == InitImages /\ [][NextImages]_vars

\* where the pieces of s between the commas start
PieceStarts(s) == {1} \cup {i + 1 : i \in {j \in DOMAIN s : s[j] = ","}}
\* where the piece that starts at st ends
PieceEnd(s, st) ==
    IF \E j \in st..Len(s) : s[j] = ","
    THEN (CHOOSE j \in st..Len(s) : s[j] = "," /\ \A k \in st..(j - 1) : s[k] # ",") - 1
    ELSE Len(s)
\* the positions of the piece that hold no blank
Inked(s, st) == {j \in st..PieceEnd(s, st) : s[j] # " "}
\* the piece from its first to its last such position
Entry(s, st) ==
    LET ink == Inked(s, st)
    IN SubSeq(s, CHOOSE j \in ink : \A k \in ink : j <= k,
                 CHOOSE j \in ink : \A k \in ink : k <= j)

\* C10: the image list is the pieces of the images field between its commas,
\* each trimmed, the empty ones dropped, in the field's order; a field of only
\* commas and blanks gives the empty list, and the insert is sent with no error.
C10_ImagesSplitTrimmedOrdered ==
    insertReq # None =>
        LET s == formData[1].images
            r == insertReq[1].images
            kept == {st \in PieceStarts(s) : Inked(s, st) # {}}
        IN /\ Len(r) = Cardinality(kept)
           /\ \A st \in kept : r[1 + Cardinality({t \in kept : t < st})] = Entry(s, st)
           /\ (\A j \in DOMAIN s : s[j] \in {",", " "}) => r = <<>>
           /\ cError = None

C10_Witness ==
    /\ insertReq # None
    /\ formData[1].images = <<" ", ",", " ", ",">>
    /\ insertReq[1].images = <<>>

----------------------------------------------------------------------------
(* The typed fields of the creation form: the form with a brand and one of its  *)
(* models chosen, any text in the year input, submitted when the browser lets  *)
(* it be, and read with any text in the other typed inputs                     *)

InitForm ==
    /\ HomeInit /\ DetailsInit /\ BackendInit /\ ProfileInit /\ ObserverInit /\ pEffects = {}
    /\ location = "/listings/create" /\ page = "ListingCreate" /\ id = ""
    /\ homeEffects = {} /\ cEffects = {} /\ dEffects = {}
    /\ cLoading = FALSE
    /\ cError = None
    /\ cBrands = car_brands
    /\ selectedBrand = "b1"
    /\ cModels = SelectModels(selectedBrand)
    /\ modelSelect = "m1"
    /\ yearInput = <<>>
    /\ cBrandsReq = 0
    /\ cModelReqs = <<>>
    /\ submitPc = "idle"
    /\ user = "unset"
    /\ formData = None
    /\ insertReq = None
    /\ insertResult = None

NextForm ==
    \/ \E t \in YearTexts : TypeYear(t)
    \/ HandleSubmit
    \/ SubmitNoUser
    \/ SubmitFormDataThrows
    \/ \E texts \in FieldTexts : SubmitInsert("u1", <<"a">>, None, texts)
    \/ \E o \in Outcomes, e \in Errors : InsertResponse(o, e)

SpecForm == InitForm /\ [][NextForm]_vars

\* C12: every listing the creation form submits has a year that is an integer
\* from 1900 to the current year.
C12_SubmittedYearInRange ==
    insertReq # None =>
        /\ IsInteger(insertReq[1].year)
        /\ MinYear <= IntValue(insertReq[1].year)
        /\ IntValue(insertReq[1].year) <= CurrentYear

\* how many digits a text starts with
LeadingDigits(t) == Cardinality({k \in 1..Len(t) : \A j \in 1..k : IsDigit(t[j])})

\* x is the integer parse of the text t: NaN when t starts with no digit, else
\* the integer written by the digits t starts with
IsIntegerParseOf(x, t) ==
    IF LeadingDigits(t) = 0 THEN x.nan
    ELSE IsInteger(x) /\ ToText(IntValue(x)) = SubSeq(t, 1, LeadingDigits(t))

\* C17: the form read with year "2021", price "15999.99", mileage "42000",
\* condition "used" and transmission "manual" submits year 2021 and mileage
\* 42000 as integers, price 15999.99, and condition and transmission as they
\* are; and whatever the form holds, year and mileage are submitted as the
\* integer parse of their texts and condition and transmission unchanged.
C17_TypedFieldsParsed ==
    insertReq # None =>
        LET fd == formData[1]
            row == insertReq[1]
        IN /\ IsIntegerParseOf(row.year, fd.year)
           /\ IsIntegerParseOf(row.mileage, fd.mileage)
           /\ row.condition = fd.condition /\ row.transmission = fd.transmission
           /\ fd.year = <<"2", "0", "2", "1">> => row.year = [nan |-> FALSE, m |-> 2021, e |-> 0]
           /\ fd.mileage = <<"4", "2", "0", "0", "0">>
                 => (IsInteger(row.mileage) /\ IntValue(row.mileage) = 42000)
           /\ fd.price = <<"1", "5", "9", "9", "9", ".", "9", "9">>
                 => row.price = [nan |-> FALSE, m |-> 1599999, e |-> 0 - 2]

C17_Witness ==
    /\ insertReq # None
    /\ formData[1].year = <<"2", "0", "2", "1">>
    /\ [k \in {"price", "mileage", "condition", "transmission"} |-> formData[1][k]]
          = ScenarioTexts
    /\ insertReq[1].year = Int2Num(2021) /\ insertReq[1].mileage = Int2Num(42000)
    /\ insertReq[1].condition = "used" /\ insertReq[1].transmission = "manual"

----------------------------------------------------------------------------
(* Row level security: clients of any identity, and of none, send statements   *)
(* to the backend's tables, in any order                                       *)

InitPolicies ==
    /\ HomeInit /\ CreateInit /\ DetailsInit /\ BackendInit /\ ProfileInit /\ ObserverInit
    /\ pEffects = {}
    /\ location = "/login" /\ page = "left" /\ id = ""
    /\ homeEffects = {} /\ cEffects = {} /\ dEffects = {}

SpecPolicies == InitPolicies /\ [][BackendNext]_vars

\* C13: under the policies of car_listings, every actor, signed in or not, reads
\* every listing; an insert is accepted only from a signed-in actor whose
\* identity is the row's seller id; an update or a delete of a listing is
\* accepted only from the actor whose identity is that listing's seller id.
C13_ListingPolicies ==
    (lastOp # None /\ lastOp[1].table = "car_listings") =>
        LET op == lastOp[1]
        IN /\ op.cmd = "SELECT" => op.result = listingRows
           /\ (op.cmd = "INSERT" /\ op.accepted)
                 => (op.actor # None /\ op.actor[1] = op.new[1].seller_id)
           /\ (op.cmd \in {"UPDATE", "DELETE"} /\ op.accepted)
                 => (op.actor # None /\ op.actor[1] = op.old[1].seller_id)

\* listings of two sellers in the table, and the update of one of them by the
\* other seller refused
C13_Witness ==
    /\ {r.seller_id : r \in listingRows} = {"u1", "u2"}
    /\ lastOp # None /\ lastOp[1].table = "car_listings" /\ lastOp[1].cmd = "UPDATE"
    /\ lastOp[1].actor = Some("u2") /\ lastOp[1].old[1].seller_id = "u1"
    /\ ~lastOp[1].accepted

\* C14: the insert policy of profiles accepts an insert from every signed-in
\* actor, whatever the id of the row inserted, and the update policy accepts an
\* update only from the actor whose identity is the row's id.
C14_ProfilePolicies ==
    (lastOp # None /\ lastOp[1].table = "profiles") =>
        LET op == lastOp[1]
        IN /\ (op.cmd = "INSERT" /\ op.actor # None) => op.accepted
           /\ (op.cmd = "UPDATE" /\ op.accepted)
                 => (op.actor # None /\ op.actor[1] = op.old[1].id)

----------------------------------------------------------------------------
(* The profile view *)

\* C16: the profile view opened with no authenticated identity navigates to the
\* login view, sends no profile read and leaves the error unset.
C16_ProfileNoUserToLogin ==
    pUser = "null" =>
        /\ location = "/login" /\ page = "left"
        /\ profileReads = 0 /\ profileReq = None
        /\ pError = None

C16_Witness == pUser = "null" /\ location = "/login" /\ pPc = "done"

----------------------------------------------------------------------------
(* Listing reads that overtake each other: Home with the brand filter in use,  *)
(* and every listing response watched                                          *)

InitStale == Init /\ page = "Home"

NextStale ==
    \/ HomeMountEffect
    \/ BrandIdEffect
    \/ \E v \in BrandIds \cup {""} : ChangeBrand(v)
    \/ ToggleFilters
    \/ ApplyFilters
    \/ ResetFilters
    \/ \E o \in Outcomes : BrandsResponse(o)
    \/ \E i \in 1..MaxInflight, o \in Outcomes : ModelsResponse(i, o)
    \/ \E i \in 1..MaxInflight, o \in Outcomes : ListingsResponseWatched(i, o)

SpecStale == InitStale /\ [][NextStale]_vars

\* C19: listing requests are neither cancelled nor sequenced: a request that a
\* later one has overtaken stays in flight, and whenever a response brings rows
\* they become the listings displayed, also when the request it answers was
\* overtaken by a later request answered before it.
C19_EveryAnswerIsShown ==
    /\ overtaken <= Len(listReqs)
    /\ lastRead # None => listings = lastRead[1].rows

\* no request is in flight, and the listings displayed are the rows of a request
\* answered after a later request was, not the rows of the filters shown
C19_Witness ==
    /\ page = "Home" /\ listReqs = <<>>
    /\ lastRead # None /\ lastRead[1].stale
    /\ listings = lastRead[1].rows
    /\ listings # RunQuery(BuildQuery(filters))

----------------------------------------------------------------------------
(* The two brand -> model cascades side by side: Home's filter panel and       *)
(* ListingCreate's form, each with its brands loaded, given the same brand     *)
(* selections, brand clearings, model picks and model-fetch outcomes           *)

notCascade == <<page, location, detailVars, backendVars, profileVars, observerVars>>

InitCascade ==
    /\ DetailsInit /\ BackendInit /\ ProfileInit /\ ObserverInit /\ pEffects = {}
    /\ location = "/" /\ page = "Home, ListingCreate" /\ id = ""
    /\ homeEffects = {} /\ cEffects = {} /\ dEffects = {}
    /\ listings = RunQuery({})
    /\ loading = FALSE
    /\ brands = car_brands
    /\ models = <<>>
    /\ filters = EmptyFilters
    /\ showFilters = TRUE
    /\ brandsReq = 0
    /\ modelReqs = <<>>
    /\ listReqs = <<>>
    /\ cLoading = FALSE
    /\ cError = None
    /\ cBrands = car_brands
    /\ cModels = <<>>
    /\ selectedBrand = ""
    /\ modelSelect = ""
    /\ yearInput = <<>>
    /\ cBrandsReq = 0
    /\ cModelReqs = <<>>
    /\ submitPc = "idle"
    /\ user = "unset"
    /\ formData = None
    /\ insertReq = None
    /\ insertResult = None

\* the same option chosen in both brand selects ("" clears the brand)
BothChangeBrand(v) ==
    /\ ChangeBrandStep(v)
    /\ SetSelectedBrandStep(v)
    /\ UNCHANGED notCascade

\* the render after it: both effects run
BothBrandEffects ==
    /\ BrandIdEffectStep
    /\ SelectedBrandEffectStep
    /\ UNCHANGED notCascade

\* the same option chosen in both model selects
BothPickModel(v) ==
    /\ ChangeModelStep(v)
    /\ PickModelStep(v)
    /\ UNCHANGED notCascade

\* the same model fetch answered with the same outcome in both
BothModelsResponse(i, o) ==
    /\ ModelsResponseStep(i, o)
    /\ CreateModelsResponseStep(i, o)
    /\ UNCHANGED notCascade

NextCascade ==
    \/ \E v \in BrandIds \cup {""} : BothChangeBrand(v)
    \/ BothBrandEffects
    \/ \E v \in ModelIds \cup {""} : BothPickModel(v)
    \/ \E i \in 1..MaxInflight, o \in Outcomes : BothModelsResponse(i, o)

SpecCascade == InitCascade /\ [][NextCascade]_vars

\* C20: the cascade of Home's filter panel and that of ListingCreate's form are
\* one state machine: given the same brand selections, brand clearings and
\* model-fetch outcomes, once both have rendered they agree on the selected
\* brand, on the model list and on whether a model is selected.
C20_CascadesAgree ==
    (homeEffects = {} /\ cEffects = {}) =>
        /\ filters.brand_id = SelectValue(selectedBrand)
        /\ models = cModels
        /\ (filters.model_id # None) = (modelSelect # "")

----------------------------------------------------------------------------
(* Requests and what issues them *)

\* how many requests are in flight: the reads of brands, models and listings of
\* Home, the reads of brands and models of ListingCreate, handleSubmit's getUser
\* and insert, the detail read, fetchProfile's getUser and read, and signOut
Pending ==
    brandsReq + Len(modelReqs) + Len(listReqs) + cBrandsReq + Len(cModelReqs)
    + (IF submitPc = "getUser" THEN 1 ELSE 0) + (IF insertReq # None THEN 1 ELSE 0)
    + (IF detailReq # None THEN 1 ELSE 0)
    + (IF pPc = "getUser" THEN 1 ELSE 0) + (IF profileReq # None THEN 1 ELSE 0)
    + (IF pPc = "signOut" THEN 1 ELSE 0)

\* a step after which more than one further request of a kind is in flight
IssuesSeveral ==
    \/ brandsReq' > brandsReq + 1 \/ Len(modelReqs') > Len(modelReqs) + 1
    \/ Len(listReqs') > Len(listReqs) + 1
    \/ cBrandsReq' > cBrandsReq + 1 \/ Len(cModelReqs') > Len(cModelReqs) + 1

\* a step after which a further request of some kind is in flight
Issues ==
    \/ brandsReq' > brandsReq \/ Len(modelReqs') > Len(modelReqs)
    \/ Len(listReqs') > Len(listReqs)
    \/ cBrandsReq' > cBrandsReq \/ Len(cModelReqs') > Len(cModelReqs)
    \/ submitPc # "getUser" /\ submitPc' = "getUser"
    \/ insertReq = None /\ insertReq' # None
    \/ detailReq = None /\ detailReq' # None
    \/ pPc # "getUser" /\ pPc' = "getUser"
    \/ profileReq = None /\ profileReq' # None
    \/ pPc # "signOut" /\ pPc' = "signOut"

\* the steps that issue a request: a mount, Apply Filters, Reset Filters, the
\* effect of a brand change, a submission (getUser, then the insert), the
\* profile view's fetchProfile (getUser, then the read), and Sign Out
Trigger ==
    \/ HomeMountEffect \/ ApplyFilters \/ ResetFilters \/ BrandIdEffect
    \/ CreateMountEffect \/ SelectedBrandEffect
    \/ HandleSubmit
    \/ \E u \in Users, images \in ImageTexts, extra \in ExtraFields :
          SubmitInsert(u, images, extra, ScenarioTexts)
    \/ DetailsMountEffect
    \/ ProfileMountEffect
    \/ \E u \in Identities : FetchProfileSelect(u)
    \/ HandleSignOut

\* the steps in which a request comes back failed
FailedResponse ==
    \/ /\ page = "Home"
       /\ \E o \in {"error", "reject"} :
             \/ BrandsResponse(o)
             \/ \E i \in DOMAIN modelReqs : ModelsResponse(i, o)
             \/ \E i \in DOMAIN listReqs : ListingsResponse(i, o)
    \/ /\ page = "ListingCreate"
       /\ \/ \E o \in {"error", "reject"} :
                \/ CreateBrandsResponse(o)
                \/ \E i \in DOMAIN cModelReqs : CreateModelsResponse(i, o)
                \/ \E e \in Errors : InsertResponse(o, e)
          \/ \E e \in Errors : SubmitGetUserRejects(e)
    \/ /\ page = "ListingDetails"
       /\ \E e \in Errors : DetailFailed(e)
    \/ /\ page = "Profile"
       /\ \E e \in Errors : FetchProfileGetUserRejects(e) \/ ProfileFailed(e)

\* C21: nothing is retried: no step issues more than one request of a kind, a
\* request is only issued by a step that belongs to a triggering event (mount,
\* Apply Filters, Reset Filters, brand change, detail view open, profile view
\* open, submission, sign out), and a step in which a request comes back failed
\* issues none: it leaves one request less in flight.
C21_NothingRetried ==
    [][/\ ~IssuesSeveral
       /\ Issues => Trigger
       /\ (Issues \/ Pending' # Pending - 1) => ~FailedResponse]_vars

\* the detail view's read has failed on the way, the error is shown and no
\* request is in flight
C21_Witness ==
    /\ page = "ListingDetails"
    /\ detailResponse # None /\ ~detailResponse[1].served
    /\ dError # None /\ ~dLoading
    /\ Pending = 0

\* C22: on the index view the loading flag is true in every state in which a
\* listing request (issued by the mount effect, Apply Filters or Reset Filters)
\* is in flight.
C22_LoadingWhileInFlight == (page = "Home" /\ listReqs # <<>>) => loading

\* C23: Reset Filters leaves the filter set empty, and the listing request it
\* issues carries no predicate, whatever the filter set was before.
C23_ResetReadsEverything ==
    [][ResetFilters => /\ filters' = EmptyFilters
                       /\ listReqs' = Append(listReqs, {})]_vars

\* C24: every link the index view offers for a listing it shows, the image and
\* 'View Details', has a target that matches a route of App, and the route is
\* the one of the listing detail view with that listing's id as its parameter.
C24_LinksLeadToDetails ==
    (page = "Home" /\ ~loading) =>
        \A i \in DOMAIN listings, link \in ListingLinks :
            LET r == MatchRoutes(LinkTo(link, listings[i]))
            IN r.element = "ListingDetails" /\ r.id = listings[i]

\* a query has a predicate on a column
HasPred(q, c) == \E p \in q : p.col = c

\* C25: once the brand effect has run, the filter set has a model id only if it
\* has a brand id, and so has every listing request issued: a request carries
\* a predicate on the model only together with one on the brand.
C25_ModelOnlyWithBrand ==
    /\ (page = "Home" /\ homeEffects = {}) =>
          (filters.model_id # None => filters.brand_id # None)
    /\ \A i \in DOMAIN listReqs :
          HasPred(listReqs[i], "model_id") => HasPred(listReqs[i], "brand_id")

\* a request with a brand and a model is in flight, the panel has been opened
\* again and the brand cleared, and the effect has taken the model id away
C25_Witness ==
    /\ page = "Home" /\ homeEffects = {} /\ showFilters
    /\ \E i \in DOMAIN listReqs :
          HasPred(listReqs[i], "model_id") /\ HasPred(listReqs[i], "brand_id")
    /\ filters.brand_id = None /\ filters.model_id = None
    /\ models = <<>>

----------------------------------------------------------------------------
(* Loading: each view with the operations that set its loading flag, every     *)
(* effect run and every request answered in the end                            *)

\* the application opened at a route, the creation form with brand and model chosen
InitLoading ==
    \/ Init /\ page # "ListingCreate"
    \/ InitForm

\* getUser of handleSubmit comes back: with no user, rejected, or with a user,
\* after which the form is read
SubmitGetUserAnswered ==
    \/ SubmitNoUser
    \/ \E e \in Errors : SubmitGetUserRejects(e)
    \/ SubmitFormDataThrows
    \/ \E u \in Users, images \in ImageTexts, extra \in ExtraFields :
          SubmitInsert(u, images, extra, ScenarioTexts)

\* getUser of fetchProfile comes back
ProfileGetUserAnswered ==
    \/ FetchProfileNoUser
    \/ \E e \in Errors : FetchProfileGetUserRejects(e)
    \/ \E u \in Identities : FetchProfileSelect(u)

NextLoading ==
    \/ HomeMountEffect
    \/ BrandIdEffect
    \/ \E v \in BrandIds \cup {""} : ChangeBrand(v)
    \/ ToggleFilters
    \/ ApplyFilters
    \/ ResetFilters
    \/ \E o \in Outcomes : BrandsResponse(o)
    \/ \E i \in 1..MaxInflight, o \in Outcomes : ModelsResponse(i, o)
    \/ \E i \in 1..MaxInflight, o \in Outcomes : ListingsResponse(i, o)
    \/ \E t \in TypedYears : TypeYear(t)
    \/ HandleSubmit
    \/ SubmitGetUserAnswered
    \/ \E o \in Outcomes, e \in Errors : InsertResponse(o, e)
    \/ DetailsNext
    \/ ProfileNext

\* React runs the effects of a render, and every request is answered or rejected
\* in the end: a listing read also when the user keeps changing the brand, which
\* holds its response back only until the effect of the change has run
FairLoading ==
    /\ WF_vars(HomeMountEffect) /\ WF_vars(BrandIdEffect)
    /\ SF_vars(\E i \in 1..MaxInflight, o \in Outcomes : ListingsResponse(i, o))
    /\ WF_vars(SubmitGetUserAnswered)
    /\ WF_vars(\E o \in Outcomes, e \in Errors : InsertResponse(o, e))
    /\ WF_vars(DetailsMountEffect)
    /\ WF_vars(DetailServed \/ \E e \in Errors : DetailFailed(e))
    /\ WF_vars(ProfileMountEffect)
    /\ WF_vars(ProfileGetUserAnswered)
    /\ WF_vars(ProfileServed \/ \E e \in Errors : ProfileFailed(e))

SpecLoading == InitLoading /\ [][NextLoading]_vars /\ FairLoading

\* a loading flag that is false becomes true only by a new operation: Apply
\* Filters or Reset Filters on Home, a submission on ListingCreate, and nothing
\* on ListingDetails and Profile
LoadingStaysFalse ==
    /\ (page = "Home" /\ ~loading /\ page' = "Home" /\ loading')
          => (ApplyFilters \/ ResetFilters)
    /\ (page = "ListingCreate" /\ ~cLoading /\ cLoading') => HandleSubmit
    /\ (page = "ListingDetails" /\ ~dLoading) => ~dLoading'
    /\ (page = "Profile" /\ ~pLoading) => ~pLoading'

\* C26: when every request is answered or rejected in the end, each view leaves
\* the loading state: the index view after its listing read, the detail view
\* after its read, the profile view after fetchProfile (also when it returns
\* early with no user) and the creation form after a submission (done, failed
\* or with no user); and a loading flag that is false stays false until a new
\* operation is started.
C26_LoadingEnds ==
    /\ (page = "Home" /\ loading) ~> (page = "Home" /\ ~loading)
    /\ (page = "ListingDetails" /\ dLoading) ~> ~dLoading
    /\ (page = "Profile" /\ pLoading) ~> ~pLoading
    /\ (page = "ListingCreate" /\ cLoading) ~> ~cLoading
    /\ [][LoadingStaysFalse]_vars

\* the index view with its reads answered: the listings are shown and loading
\* is over
C26_Witness ==
    /\ page = "Home" /\ homeEffects = {}
    /\ listReqs = <<>> /\ brandsReq = 0
    /\ listings = RunQuery({})
    /\ ~loading

----------------------------------------------------------------------------
(* The submissions of the creation form, call by call: each submit event       *)
(* starts a call of handleSubmit with locals of its own, and nothing but the   *)
(* disabled submit button keeps a second call from starting                    *)

notSubmit == <<homeVars, detailVars, backendVars, profileVars, overtaken, lastRead,
               cBrands, cModels, selectedBrand, modelSelect, yearInput, cEffects,
               cBrandsReq, cModelReqs, submitPc, user, formData, insertReq,
               insertResult>>

\* the submit event with a handler that does not call setLoading(true)
SubmitEventKeepsLoading ==
    /\ CreateIdle
    /\ ~cLoading
    /\ selectedBrand # "" /\ modelSelect # ""
    /\ YearInputValid(yearInput)
    /\ Len(calls) < MaxInflight
    /\ cError' = None
    /\ calls' = Append(calls, [pc |-> "getUser", row |-> None])
    /\ UNCHANGED <<page, location, notSubmit, cLoading, created>>

\* the submit event: <button type="submit" disabled={loading}> lets it through
\* only while loading is false, and so does the Enter key; handleSubmit runs up
\* to its first await: setLoading(true); setError(null)
SubmitEvent ==
    /\ CreateIdle
    /\ ~cLoading
    /\ selectedBrand # "" /\ modelSelect # ""
    /\ YearInputValid(yearInput)
    /\ Len(calls) < MaxInflight
    /\ cLoading' = TRUE
    /\ cError' = None
    /\ calls' = Append(calls, [pc |-> "getUser", row |-> None])
    /\ UNCHANGED <<page, location, notSubmit, created>>

\* a call ends: its finally runs setLoading(false), which does nothing once the
\* form is unmounted
CallEnds(i) ==
    /\ calls' = Remove(calls, i)
    /\ cLoading' = IF page = "ListingCreate" THEN FALSE ELSE cLoading

\* call i after getUser, with no user: navigate('/login'); return
CallNoUser(i) ==
    /\ i \in DOMAIN calls /\ calls[i].pc = "getUser"
    /\ cEffects = {}
    /\ CallEnds(i)
    /\ location' = "/login"
    /\ page' = "left"
    /\ UNCHANGED <<notSubmit, cError, created>>

\* call i when getUser rejects, or when new FormData(e.currentTarget) throws:
\* catch: setError(..)
CallCatch(i, e) ==
    /\ i \in DOMAIN calls /\ calls[i].pc = "getUser"
    /\ cEffects = {}
    /\ CallEnds(i)
    /\ cError' = IF page = "ListingCreate" THEN Some(ErrorMessage(e)) ELSE cError
    /\ UNCHANGED <<page, location, notSubmit, created>>

\* call i after getUser, with a user and the form still there to read: the
\* insert is sent
CallInsert(i, u, images, extra, texts) ==
    /\ i \in DOMAIN calls /\ calls[i].pc = "getUser"
    /\ CreateIdle
    /\ calls' = [calls EXCEPT ![i] =
                    [pc |-> "insert",
                     row |-> Some(InsertRow([id |-> u], FormData(images, extra, texts)))]]
    /\ UNCHANGED <<page, location, notSubmit, cLoading, cError, created>>

\* call i after its insert: the backend has stored the row or not; if
\* (listingError) throw listingError; navigate('/')
CallInsertResponse(i, o, e) ==
    /\ i \in DOMAIN calls /\ calls[i].pc = "insert"
    /\ cEffects = {}
    /\ CallEnds(i)
    /\ IF o = "ok"
       THEN /\ created' = created + 1
            /\ location' = "/"
            /\ page' = "left"
            /\ UNCHANGED cError
       ELSE /\ cError' = IF page = "ListingCreate" THEN Some(ErrorMessage(e)) ELSE cError
            /\ UNCHANGED <<page, location, created>>
    /\ UNCHANGED notSubmit

\* the form with its year input typed into, submitted, and every call of
\* handleSubmit going its way
NextSubmit ==
    \/ \E t \in YearTexts : TypeYear(t)
    \/ SubmitEvent
    \/ \E i \in 1..MaxInflight : CallNoUser(i)
    \/ \E i \in 1..MaxInflight, e \in Errors \cup {TypeError} : CallCatch(i, e)
    \/ \E i \in 1..MaxInflight, u \in Users, images \in ImageTexts, extra \in ExtraFields :
          CallInsert(i, u, images, extra, ScenarioTexts)
    \/ \E i \in 1..MaxInflight, o \in Outcomes, e \in Errors : CallInsertResponse(i, o, e)

SpecSubmit == InitForm /\ [][NextSubmit]_vars

\* C27: while a call of handleSubmit has not returned the submit button is
\* disabled, so there is never more than one call, never more than one insert
\* in flight, and the form ends with at most one row created, by the one
\* submission that succeeded.
C27_OneInsertInFlight ==
    /\ (page = "ListingCreate" /\ calls # <<>>) => cLoading
    /\ Len(calls) <= 1
    /\ Cardinality({i \in DOMAIN calls : calls[i].pc = "insert"}) <= 1
    /\ created <= 1
    /\ created = 1 => page = "left" /\ calls = <<>>

\* an insert is in flight, and the button is disabled
C27_Witness ==
    /\ page = "ListingCreate"
    /\ Len(calls) = 1 /\ calls[1].pc = "insert"
    /\ cLoading

====
